---- MODULE Spec2Model ----
(***************************************************************************)
(* Model of the ultimate tic-tac-toe server in src/src/index.ts: the room  *)
(* registry `games`, the socket handlers create-room, join-room,           *)
(* make-move, restart-game and disconnect, and the pure board functions    *)
(* they call.                                                              *)
(***************************************************************************)
EXTENDS Integers, Sequences, FiniteSets, TLC

\* games: Map<string, Game>, a function from the room codes in use to games
\* reply: the handler that ran last and the message it emitted
\* free:  number of make-move messages sent outside the playbook so far
\* torn:  the room codes a disconnect has removed from the registry and
\*        create-room has not drawn again since (history, not server state)
VARIABLES games, reply, free, torn

vars == <<games, reply, free, torn>>

----------------------------------------------------------------------------
(* Types of index.ts                                                       *)

X == "X"
O == "O"
Empty == ""
Sign == {X, O, Empty}

\* `null` of Game.winner (Sign | null)
Null == "null"
\* `null` of CurrentBoardIndex (number | null)
NoBoard == -1

boardSize == 9
boardRowQuantity == 3

Idx == 0 .. (boardRowQuantity - 1)
BoardIdx == 0 .. (boardSize - 1)

\* the values a client can put in Position {smallBoard, row, cell}
Positions == [smallBoard : BoardIdx, row : Idx, cell : Idx]

----------------------------------------------------------------------------
(* Bounds of the model                                                     *)

\* socket ids; a disconnected socket is seated nowhere (the disconnect
\* handler deletes every room it sat in), so its id stands for a later
\* connection as well
Conns == {"c1", "c2"}

\* the values generateId can return
RoomCodes == {"r1"}

\* make-move messages outside the playbook that clients send in one run
MaxFree == 1

----------------------------------------------------------------------------
(* Board Model                                                             *)

getEmptySmallBoard == [i \in Idx |-> [j \in Idx |-> Empty]]

getDefaultBoard == [b \in BoardIdx |-> getEmptySmallBoard]

\* the list of empty cells, row by row: rowIndex + boardRowQuantity * index
getEmptyCellIndexes(board) ==
    LET all == [n \in 1 .. 9 |-> n - 1]
    IN  SelectSeq(all, LAMBDA n : board[n \div boardRowQuantity][n % boardRowQuantity] = Empty)

Includes(seq, v) == \E n \in 1 .. Len(seq) : seq[n] = v

checkSmallBoardWin(board, player) ==
    \/ \E i \in Idx :
          \/ \A c \in Idx : board[i][c] = player
          \/ \A r \in Idx : board[r][i] = player
    \/ (board[0][2] = player /\ board[1][1] = player /\ board[2][0] = player)
    \/ (board[0][0] = player /\ board[1][1] = player /\ board[2][2] = player)

\* checkWin without its first diagonal test
checkWin_NoAntiDiagonal(winBoard, player) ==
    \/ \E i \in Idx :
          \/ \A c \in Idx : winBoard[i][c] = player
          \/ \A r \in Idx : winBoard[r][i] = player
    \/ (winBoard[0][0] = player /\ winBoard[1][1] = player /\ winBoard[2][2] = player)

checkWin(winBoard, player) ==
    \/ \E i \in Idx :
          \/ \A c \in Idx : winBoard[i][c] = player
          \/ \A r \in Idx : winBoard[r][i] = player
    \/ (winBoard[0][2] = player /\ winBoard[1][1] = player /\ winBoard[2][0] = player)
    \/ (winBoard[0][0] = player /\ winBoard[1][1] = player /\ winBoard[2][2] = player)

\* canMoveToSmallBoard testing only that a cell is empty
canMoveToSmallBoard_OnlyEmpty(board) ==
    LET emptyCells == Cardinality({rc \in Idx \X Idx : board[rc[1]][rc[2]] = Empty})
    IN  emptyCells > 0

\* canMoveToSmallBoard without its test for a win of O
canMoveToSmallBoard_NoOWinCheck(board) ==
    LET emptyCells == Cardinality({rc \in Idx \X Idx : board[rc[1]][rc[2]] = Empty})
    IN  emptyCells > 0 /\ ~checkSmallBoardWin(board, X)

canMoveToSmallBoard(board) ==
    LET emptyCells == Cardinality({rc \in Idx \X Idx : board[rc[1]][rc[2]] = Empty})
    IN  emptyCells > 0 /\ ~checkSmallBoardWin(board, X) /\ ~checkSmallBoardWin(board, O)

\* winBoard[y][x] with x = i % 3, y = floor(i / 3)
getWinnerBoard(board) ==
    [y \in Idx |-> [x \in Idx |->
        LET i == y * 3 + x
        IN  IF checkSmallBoardWin(board[i], X) THEN X
            ELSE IF checkSmallBoardWin(board[i], O) THEN O
            ELSE Empty]]

\* checkTie with its outer loop stopping one row early
checkTie_ShortLoop(winnerBoard) ==
    ~ \E i \in 0 .. (boardRowQuantity - 2), j \in Idx :
          /\ winnerBoard[i][j] = Empty
          /\ Includes(getEmptyCellIndexes(winnerBoard), i * 3 + j)

checkTie(winnerBoard) ==
    ~ \E i \in Idx, j \in Idx :
          /\ winnerBoard[i][j] = Empty
          /\ Includes(getEmptyCellIndexes(winnerBoard), i * 3 + j)

\* getNextBoardIndex with row and col exchanged in the index
getNextBoardIndex_Swapped(board, row, col) ==
    LET index == col * 3 + row
    IN  IF \/ checkSmallBoardWin(board[index], X)
           \/ checkSmallBoardWin(board[index], O)
           \/ Len(getEmptyCellIndexes(board[index])) = 0
        THEN NoBoard
        ELSE index

\* getNextBoardIndex testing only for a full small board
getNextBoardIndex_OnlyFull(board, row, col) ==
    LET index == row * 3 + col
    IN  IF Len(getEmptyCellIndexes(board[index])) = 0
        THEN NoBoard
        ELSE index

getNextBoardIndex(board, row, col) ==
    LET index == row * 3 + col
    IN  IF \/ checkSmallBoardWin(board[index], X)
           \/ checkSmallBoardWin(board[index], O)
           \/ Len(getEmptyCellIndexes(board[index])) = 0
        THEN NoBoard
        ELSE index

\* isValidMove without validBoard
isValidMove_NoBoardCheck(smallBoardIndex, row, col, gameOver, board, currentBoard, currentPlayer, player) ==
    LET freeCell == board[smallBoardIndex][row][col] = Empty
        validBoardIndex == currentBoard = NoBoard \/ smallBoardIndex = currentBoard
        validPlayer == currentPlayer = player
    IN  freeCell /\ validBoardIndex /\ validPlayer /\ ~gameOver

\* isValidMove without !gameOver
isValidMove_IgnoreGameOver(smallBoardIndex, row, col, gameOver, board, currentBoard, currentPlayer, player) ==
    LET freeCell == board[smallBoardIndex][row][col] = Empty
        validBoardIndex == currentBoard = NoBoard \/ smallBoardIndex = currentBoard
        validBoard == canMoveToSmallBoard(board[smallBoardIndex])
        validPlayer == currentPlayer = player
    IN  freeCell /\ validBoardIndex /\ validBoard /\ validPlayer

\* isValidMove without freeCell
isValidMove_NoFreeCell(smallBoardIndex, row, col, gameOver, board, currentBoard, currentPlayer, player) ==
    LET validBoardIndex == currentBoard = NoBoard \/ smallBoardIndex = currentBoard
        validBoard == canMoveToSmallBoard(board[smallBoardIndex])
        validPlayer == currentPlayer = player
    IN  validBoardIndex /\ validBoard /\ validPlayer /\ ~gameOver

isValidMove(smallBoardIndex, row, col, gameOver, board, currentBoard, currentPlayer, player) ==
    LET freeCell == board[smallBoardIndex][row][col] = Empty
        validBoardIndex == currentBoard = NoBoard \/ smallBoardIndex = currentBoard
        validBoard == canMoveToSmallBoard(board[smallBoardIndex])
        validPlayer == currentPlayer = player
    IN  freeCell /\ validBoardIndex /\ validBoard /\ validPlayer /\ ~gameOver

----------------------------------------------------------------------------
(* The registry: Map get / set / delete                                    *)

Has(r) == r \in DOMAIN games

MapSet(m, k, v) == [x \in (DOMAIN m) \cup {k} |-> IF x = k THEN v ELSE m[x]]

MapDelete(m, ks) == [x \in (DOMAIN m) \ ks |-> m[x]]

\* the object literal of games.set in create-room
NewGame ==
    [ players       |-> << >>,
      board         |-> getDefaultBoard,
      currentPlayer |-> X,
      currentBoard  |-> NoBoard,
      gameOver      |-> FALSE,
      winner        |-> Null,
      isTie         |-> FALSE ]

Emit(on, msg) == [on |-> on, msg |-> msg]

\* game.players.find((player) => player.id === id)?.sign ; Null when absent
FindSign(players, id) ==
    LET hits == SelectSeq(players, LAMBDA player : player.id = id)
    IN  IF Len(hits) = 0 THEN Null ELSE hits[1].sign

\* game.players.findIndex(...) !== -1
Seated(game, id) == \E n \in 1 .. Len(game.players) : game.players[n].id = id

----------------------------------------------------------------------------
(* Handlers                                                                *)

\* socket.on('create-room'): generateId may return any code, taken or not
CreateRoom(id, roomCode) ==
    /\ games' = MapSet(games, roomCode,
                       [NewGame EXCEPT !.players = <<[id |-> id, sign |-> X]>>])
    /\ reply' = Emit("create-room", "room-created")
    /\ torn' = torn \ {roomCode}
    /\ UNCHANGED free

\* join-room testing players.length > 2
joinRoom_OffByOne(game, id) ==
    IF Len(game.players) > 2
    THEN [game |-> game, msg |-> "Room is full!"]
    ELSE [game |-> [game EXCEPT !.players = Append(@, [id |-> id, sign |-> O])],
          msg  |-> "start-game"]

\* the game after join-room's push, or the error it emits
joinRoom(game, id) ==
    IF Len(game.players) >= 2
    THEN [game |-> game, msg |-> "Room is full!"]
    ELSE [game |-> [game EXCEPT !.players = Append(@, [id |-> id, sign |-> O])],
          msg  |-> "start-game"]

JoinRoom(id, roomCode) ==
    /\ IF ~Has(roomCode)
       THEN /\ reply' = Emit("join-room", "Room not found!")
            /\ UNCHANGED games
       ELSE LET res == joinRoom(games[roomCode], id)
            IN  /\ games' = [games EXCEPT ![roomCode] = res.game]
                /\ reply' = Emit("join-room", res.msg)
    /\ UNCHANGED <<free, torn>>

\* make-move giving the turn to the other mark before it tests for a win
applyMove_AlwaysFlip(game, position, currentPlayer) ==
    LET board   == [game.board EXCEPT
                      ![position.smallBoard][position.row][position.cell] = currentPlayer]
        winBoard == getWinnerBoard(board)
        g1 == [game EXCEPT !.board = board,
                           !.currentPlayer = IF currentPlayer = X THEN O ELSE X]
        g2 == IF checkWin(winBoard, currentPlayer)
                THEN [g1 EXCEPT !.winner = currentPlayer]
              ELSE IF checkTie(winBoard)
                THEN [g1 EXCEPT !.isTie = TRUE]
              ELSE g1
    IN  IF g2.winner # Null \/ g2.isTie
        THEN [g2 EXCEPT !.gameOver = TRUE]
        ELSE [g2 EXCEPT !.currentBoard =
                 getNextBoardIndex(g2.board, position.row, position.cell)]

\* the part of make-move after the validity check (lines 137-152)
applyMove(game, position, currentPlayer) ==
    LET board   == [game.board EXCEPT
                      ![position.smallBoard][position.row][position.cell] = currentPlayer]
        winBoard == getWinnerBoard(board)
        g1 == [game EXCEPT !.board = board]
        g2 == IF checkWin(winBoard, currentPlayer)
                THEN [g1 EXCEPT !.winner = currentPlayer]
              ELSE IF checkTie(winBoard)
                THEN [g1 EXCEPT !.isTie = TRUE]
              ELSE [g1 EXCEPT !.currentPlayer = IF currentPlayer = X THEN O ELSE X]
    IN  IF g2.winner # Null \/ g2.isTie
        THEN [g2 EXCEPT !.gameOver = TRUE]
        ELSE [g2 EXCEPT !.currentBoard =
                 getNextBoardIndex(g2.board, position.row, position.cell)]

\* make-move without the `return` after 'Invalid move!'
makeMove_NoReturn(game, id, position) ==
    LET currentPlayer == FindSign(game.players, id)
    IN  IF currentPlayer = Null
          THEN [game |-> game, msg |-> "Player not found!"]
        ELSE IF currentPlayer # game.currentPlayer
          THEN [game |-> game, msg |-> "Not your turn!"]
        ELSE IF ~isValidMove(position.smallBoard, position.row, position.cell,
                             game.gameOver, game.board, game.currentBoard,
                             game.currentPlayer, currentPlayer)
          THEN [game |-> applyMove(game, position, currentPlayer), msg |-> "Invalid move!"]
        ELSE [game |-> applyMove(game, position, currentPlayer), msg |-> "move-made"]

\* make-move testing the turn before the seat
makeMove_TurnFirst(game, id, position) ==
    LET currentPlayer == FindSign(game.players, id)
    IN  IF currentPlayer # game.currentPlayer
          THEN [game |-> game, msg |-> "Not your turn!"]
        ELSE IF currentPlayer = Null
          THEN [game |-> game, msg |-> "Player not found!"]
        ELSE IF ~isValidMove(position.smallBoard, position.row, position.cell,
                             game.gameOver, game.board, game.currentBoard,
                             game.currentPlayer, currentPlayer)
          THEN [game |-> game, msg |-> "Invalid move!"]
        ELSE [game |-> applyMove(game, position, currentPlayer), msg |-> "move-made"]

\* socket.on('make-move') on a room that exists
makeMove(game, id, position) ==
    LET currentPlayer == FindSign(game.players, id)
    IN  IF currentPlayer = Null
          THEN [game |-> game, msg |-> "Player not found!"]
        ELSE IF currentPlayer # game.currentPlayer
          THEN [game |-> game, msg |-> "Not your turn!"]
        ELSE IF ~isValidMove(position.smallBoard, position.row, position.cell,
                             game.gameOver, game.board, game.currentBoard,
                             game.currentPlayer, currentPlayer)
          THEN [game |-> game, msg |-> "Invalid move!"]
        ELSE [game |-> applyMove(game, position, currentPlayer), msg |-> "move-made"]

\* make-move when all games hold one and the same board object, as they
\* would if getDefaultBoard handed out a shared board
MoveStep_SharedBoard(id, roomCode, position) ==
    IF ~Has(roomCode)
    THEN /\ reply' = Emit("make-move", "Room not found!")
         /\ UNCHANGED games
    ELSE LET res == makeMove(games[roomCode], id, position)
         IN  /\ games' = [r \in DOMAIN games |->
                             IF r = roomCode THEN res.game
                             ELSE [games[r] EXCEPT !.board = res.game.board]]
             /\ reply' = Emit("make-move", res.msg)

\* the effect of make-move on the registry and on the wire
MoveStep(id, roomCode, position) ==
    IF ~Has(roomCode)
    THEN /\ reply' = Emit("make-move", "Room not found!")
         /\ UNCHANGED games
    ELSE LET res == makeMove(games[roomCode], id, position)
         IN  /\ games' = [games EXCEPT ![roomCode] = res.game]
             /\ reply' = Emit("make-move", res.msg)

\* restart-game without `game.winner = null`
restartGame_KeepWinner(game) ==
    [game EXCEPT !.board = getDefaultBoard,
                 !.currentPlayer = X,
                 !.currentBoard = NoBoard,
                 !.gameOver = FALSE,
                 !.isTie = FALSE]

\* restart-game without `game.currentPlayer = 'X'`
restartGame_KeepTurn(game) ==
    [game EXCEPT !.board = getDefaultBoard,
                 !.currentBoard = NoBoard,
                 !.gameOver = FALSE,
                 !.winner = Null,
                 !.isTie = FALSE]

\* the game of restart-game's if-branch
restartGame(game) ==
    [game EXCEPT !.board = getDefaultBoard,
                 !.currentPlayer = X,
                 !.currentBoard = NoBoard,
                 !.gameOver = FALSE,
                 !.winner = Null,
                 !.isTie = FALSE]

\* restart-game testing only `game`
canRestart_AnyGame(roomCode) == Has(roomCode)

\* the condition of restart-game's if
canRestart(roomCode) == Has(roomCode) /\ games[roomCode].gameOver

RestartGame(id, roomCode) ==
    /\ IF canRestart(roomCode)
       THEN /\ games' = [games EXCEPT ![roomCode] = restartGame(@)]
            /\ reply' = Emit("restart-game", "game-restarted")
       ELSE /\ reply' = Emit("restart-game", "none")
            /\ UNCHANGED games
    /\ UNCHANGED <<free, torn>>

\* disconnect without `games.delete(roomCode)`: the seat is spliced out and
\* the room stays
Disconnect_KeepRoom(id) ==
    LET gone == {r \in DOMAIN games : Seated(games[r], id)}
        splice(players) ==
            LET n == CHOOSE k \in 1 .. Len(players) :
                        /\ players[k].id = id
                        /\ \A j \in 1 .. (k - 1) : players[j].id # id
            IN  SubSeq(players, 1, n - 1) \o SubSeq(players, n + 1, Len(players))
    IN  /\ games' = [r \in DOMAIN games |->
                        IF r \in gone
                        THEN [games[r] EXCEPT !.players = splice(@)]
                        ELSE games[r]]
        /\ reply' = Emit("disconnect", IF gone = {} THEN "none" ELSE "player-disconnected")
        /\ torn' = torn \cup gone
        /\ UNCHANGED free

\* socket.on('disconnect'): every room the socket sits in is deleted
Disconnect(id) ==
    LET gone == {r \in DOMAIN games : Seated(games[r], id)}
    IN  /\ games' = MapDelete(games, gone)
        /\ reply' = Emit("disconnect", IF gone = {} THEN "none" ELSE "player-disconnected")
        /\ torn' = torn \cup gone
        /\ UNCHANGED free

----------------------------------------------------------------------------
(* The moves clients send                                                  *)

\* a recorded game, as <<smallBoard, row, cell>>: after these 39 moves X has
\* won boards 1 and 4, O has won boards 0 and 5
Opening ==
    << <<6,2,1>>, <<7,0,1>>, <<1,0,2>>, <<2,1,1>>, <<4,0,2>>, <<2,1,2>>,
       <<5,2,2>>, <<8,0,1>>, <<1,0,0>>, <<0,0,0>>, <<0,1,1>>, <<4,1,1>>,
       <<4,0,1>>, <<1,0,1>>, <<1,1,2>>, <<5,1,1>>, <<4,0,0>>, <<0,1,0>>,
       <<3,2,1>>, <<7,1,0>>, <<3,1,1>>, <<0,0,1>>, <<1,2,0>>, <<6,2,2>>,
       <<8,1,1>>, <<5,0,0>>, <<0,1,2>>, <<5,2,1>>, <<7,1,2>>, <<5,0,1>>,
       <<1,1,1>>, <<0,0,2>>, <<2,0,0>>, <<7,0,2>>, <<2,2,2>>, <<8,0,0>>,
       <<6,0,2>>, <<2,2,0>>, <<6,0,0>> >>

\* its continuation until only boards 2 and 8 are open
Middle ==
    << <<3,1,0>>, <<3,0,1>>, <<7,2,0>>, <<6,0,1>>, <<7,1,1>>, <<8,1,2>>, <<8,2,0>> >>

\* four ways to finish it: all nine boards won and no line of three; board 2
\* filled without a winner; X completes the anti-diagonal with every board
\* decided; O completes column 2 while boards 3, 6 and 7 are still open
EndTie   == Middle \o << <<8,2,1>>, <<2,0,2>>, <<8,1,0>> >>
EndStall == Middle \o << <<2,2,1>>, <<8,1,0>>, <<2,0,2>>, <<2,0,1>>, <<2,1,0>> >>
EndX     == Middle \o << <<8,2,1>>, <<8,1,0>>, <<2,0,2>>, <<2,2,1>>, <<2,0,1>> >>
EndO     == << <<2,0,2>>, <<6,1,1>>, <<8,0,2>> >>

Scripts == {Opening \o e : e \in {EndTie, EndStall, EndX, EndO}}

\* number of cells written
Marks(board) ==
    Cardinality({p \in BoardIdx \X Idx \X Idx : board[p[1]][p[2]][p[3]] # Empty})

\* the moves the recorded games make after as many moves as the room has seen
Playbook(roomCode) ==
    LET k == IF Has(roomCode) THEN Marks(games[roomCode].board) + 1 ELSE 1
    IN  {[smallBoard |-> s[k][1], row |-> s[k][2], cell |-> s[k][3]] :
            s \in {t \in Scripts : k <= Len(t)}}

\* the board is the one a recorded game has after as many moves
OnScript(board) ==
    LET k == Marks(board)
    IN  \E s \in Scripts :
            /\ k <= Len(s)
            /\ \A j \in 1 .. k :
                   board[s[j][1]][s[j][2]][s[j][3]] = (IF j % 2 = 1 THEN X ELSE O)

\* the positions clients send to a room: the playbook's, or, while the budget
\* lasts and the room has not left the recorded games, any position at all
MoveInputs(roomCode) ==
    IF free < MaxFree /\ (Has(roomCode) => OnScript(games[roomCode].board))
    THEN Positions
    ELSE Playbook(roomCode)

\* socket.on('make-move'), for a message the model lets a client send; book
\* is the playbook of the room, worked out once for all the messages
MakeMove(id, roomCode, position, book) ==
    /\ free' = IF position \in book THEN free ELSE free + 1
    /\ MoveStep(id, roomCode, position)
    /\ UNCHANGED torn

----------------------------------------------------------------------------
(* Specification                                                           *)

\* `let games = new Map()`; nothing has been emitted
Init ==
    /\ games = << >>
    /\ reply = Emit("none", "none")
    /\ free = 0
    /\ torn = {}

Next ==
    \/ \E id \in Conns, r \in RoomCodes : CreateRoom(id, r)
    \/ \E id \in Conns, r \in RoomCodes : JoinRoom(id, r)
    \/ \E r \in RoomCodes : \E book \in {Playbook(r)} :
          \E pos \in MoveInputs(r) : \E id \in Conns : MakeMove(id, r, pos, book)
    \/ \E id \in Conns, r \in RoomCodes : RestartGame(id, r)
    \/ \E id \in Conns : Disconnect(id)

Spec == Init /\ [][Next]_vars

----------------------------------------------------------------------------
(* Two rooms side by side                                                  *)

\* the values generateId can return when two rooms are wanted
TwoCodes == {"r1", "r2"}

\* a recorded game of 17 moves: X wins small boards 1, 0 and 2, the top row
ShortGame ==
    << <<0,0,0>>, <<0,0,1>>, <<1,0,0>>, <<0,0,2>>, <<2,0,1>>, <<1,0,1>>,
       <<1,1,0>>, <<3,0,0>>, <<0,1,0>>, <<3,0,1>>, <<1,2,0>>, <<6,0,0>>,
       <<0,2,0>>, <<6,0,1>>, <<2,0,0>>, <<4,0,0>>, <<2,0,2>> >>

\* the positions clients send to a room: the next move of the recorded game
\* and its first move, which is refused once it has been played
ShortInputs(roomCode) ==
    LET k == IF Has(roomCode) THEN Marks(games[roomCode].board) + 1 ELSE 1
    IN  {[smallBoard |-> ShortGame[n][1], row |-> ShortGame[n][2], cell |-> ShortGame[n][3]] :
            n \in {1} \cup ({k} \cap (1 .. Len(ShortGame)))}

\* socket.on('make-move'), outside the playbook's accounting
ShortMove(id, roomCode, position) ==
    /\ MoveStep(id, roomCode, position)
    /\ UNCHANGED <<free, torn>>

NextRooms ==
    \/ \E id \in Conns, r \in TwoCodes : CreateRoom(id, r)
    \/ \E id \in Conns, r \in TwoCodes : JoinRoom(id, r)
    \/ \E r \in TwoCodes : \E pos \in ShortInputs(r) : \E id \in Conns : ShortMove(id, r, pos)
    \/ \E id \in Conns, r \in TwoCodes : RestartGame(id, r)
    \/ \E id \in Conns : Disconnect(id)

SpecRooms == Init /\ [][NextRooms]_vars

----------------------------------------------------------------------------
(* Vocabulary of the properties, stated without the functions of index.ts  *)

\* the 3 rows, 3 columns and 2 diagonals of a 3x3 grid
Lines ==
    {{<<i, 0>>, <<i, 1>>, <<i, 2>>} : i \in Idx} \cup
    {{<<0, j>>, <<1, j>>, <<2, j>>} : j \in Idx} \cup
    {{<<0, 0>>, <<1, 1>>, <<2, 2>>}, {<<0, 2>>, <<1, 1>>, <<2, 0>>}}

ThreeInARow(grid, m) == \E l \in Lines : \A rc \in l : grid[rc[1]][rc[2]] = m

HasEmptyCell(grid) == \E i \in Idx, j \in Idx : grid[i][j] = Empty

Undecided(grid) == ~ThreeInARow(grid, X) /\ ~ThreeInARow(grid, O)

\* cell i, row-major, is the mark with three in a row in small board i
WinnerGrid(board) ==
    [i \in Idx |-> [j \in Idx |->
        IF ThreeInARow(board[i * 3 + j], X) THEN X
        ELSE IF ThreeInARow(board[i * 3 + j], O) THEN O
        ELSE Empty]]

Other(m) == IF m = X THEN O ELSE X

Rooms == DOMAIN games

\* the mark of the first seat bound to the connection
SeatMark(game, id) ==
    IF game.players[1].id = id THEN game.players[1].sign ELSE game.players[2].sign

WriteCell(board, pos, m) == [board EXCEPT ![pos.smallBoard][pos.row][pos.cell] = m]

At(board, pos) == board[pos.smallBoard][pos.row][pos.cell]

\* what the room's game would be made of by a restart or a creation
OutcomeFields(game) == <<game.gameOver, game.winner, game.isTie>>

----------------------------------------------------------------------------
(* C1: in every reachable state, a make-move from a seated connection is   *)
(* accepted, and writes the sender's mark into the cell, exactly when the  *)
(* cell is empty, the active board is unset or is the targeted one, the    *)
(* targeted small board has no three in a row and has an empty cell, the   *)
(* sender's mark is the one to move and the game is not over; otherwise    *)
(* the move is refused and the cell keeps its content.                     *)
(* The handler is judged on all 81 positions in the states that follow a   *)
(* change of the registry; the second conjunct says that every other step  *)
(* leaves the registry as it was, so these states carry every registry     *)
(* the server can reach.                                                   *)

C1_Legal(game, id, pos) ==
    /\ ~game.gameOver
    /\ SeatMark(game, id) = game.currentPlayer
    /\ game.currentBoard = NoBoard \/ game.currentBoard = pos.smallBoard
    /\ At(game.board, pos) = Empty
    /\ Undecided(game.board[pos.smallBoard])
    /\ HasEmptyCell(game.board[pos.smallBoard])

C1_Judged ==
    \A r \in Rooms : \A id \in Conns : Seated(games[r], id) =>
        \A pos \in Positions : \A res \in {makeMove(games[r], id, pos)} :
            IF C1_Legal(games[r], id, pos)
            THEN /\ res.msg = "move-made"
                 /\ res.game.board = WriteCell(games[r].board, pos, SeatMark(games[r], id))
            ELSE /\ res.msg # "move-made"
                 /\ res.game.board = games[r].board

\* the messages of the handlers' branches that write to the registry
ChangeMsgs ==
    {"room-created", "start-game", "move-made", "game-restarted", "player-disconnected"}

C1_MoveAcceptedIffLegal ==
    /\ [](reply.msg \in ChangeMsgs => C1_Judged)
    /\ [][reply'.msg \notin ChangeMsgs => games' = games]_vars

FullUndecided(grid) == Undecided(grid) /\ ~HasEmptyCell(grid)

\* a move was just refused in a game that goes on and has a small board that
\* is full without a winner
C1_Witness ==
    /\ reply = Emit("make-move", "Invalid move!")
    /\ \E r \in Rooms :
          /\ ~games[r].gameOver
          /\ \E b \in BoardIdx : FullUndecided(games[r].board[b])
          /\ \E b \in BoardIdx : ~Undecided(games[r].board[b]) /\ HasEmptyCell(games[r].board[b])

----------------------------------------------------------------------------
(* C2: a make-move that is answered with an error (room not found, player  *)
(* not found, not your turn, invalid move) leaves the registry, and so     *)
(* every field of every game and its seats, exactly as it was.             *)

MoveErrors == {"Room not found!", "Player not found!", "Not your turn!", "Invalid move!"}

C2_RejectedMoveChangesNothing ==
    [][(reply'.on = "make-move" /\ reply'.msg \in MoveErrors) => games' = games]_vars

\* each of the four errors is the answer to some make-move: here an invalid
\* move in a game under way
C2_Witness ==
    /\ reply = Emit("make-move", "Invalid move!")
    /\ \E r \in Rooms : Marks(games[r].board) > 0 /\ games[r].currentBoard # NoBoard

----------------------------------------------------------------------------
(* C3: an accepted move at (row, cell) that does not end the game gives    *)
(* the turn to the other mark and sets the active board to row*3+cell when *)
(* that small board, with the move written, has no winner and an empty     *)
(* cell, and to unset otherwise, whatever small board was played.          *)

C3_NextBoardRule ==
    [][reply'.msg = "move-made" =>
          \A r \in Rooms : \A pos \in Positions :
              ( /\ At(games[r].board, pos) = Empty
                /\ At(games'[r].board, pos) # Empty
                /\ \E id \in Conns : MoveStep(id, r, pos)
                /\ ~games'[r].gameOver )
              => LET k == pos.row * 3 + pos.cell
                 IN  /\ games'[r].currentPlayer = Other(games[r].currentPlayer)
                     /\ games'[r].currentBoard =
                           IF Undecided(games'[r].board[k]) /\ HasEmptyCell(games'[r].board[k])
                           THEN k ELSE NoBoard
      ]_vars

\* a move was just accepted that sends the opponent to a small board that is
\* already won, so the active board is unset and the game goes on
C3_Witness ==
    /\ reply = Emit("make-move", "move-made")
    /\ \E r \in Rooms :
          /\ ~games[r].gameOver
          /\ games[r].currentBoard = NoBoard
          /\ games[r].currentPlayer = O
          /\ \E b \in BoardIdx : ~Undecided(games[r].board[b])

----------------------------------------------------------------------------
(* C4: an accepted move by mark m ends the game with winner m exactly when *)
(* the winner grid after the move has a row, column or diagonal of m; if   *)
(* it has none, no winner is set, so winning a small board alone does not  *)
(* end the game, and a winner is never the mark that did not move.         *)

\* the room an accepted move was made in
Played(r) == r \in DOMAIN games' /\ games'[r].board # games[r].board

\* mark m was written into an empty cell of the room's board
Wrote(r, m) ==
    \E b \in BoardIdx : games'[r].board[b] # games[r].board[b] /\
        \E i \in Idx, j \in Idx :
            games[r].board[b][i][j] = Empty /\ games'[r].board[b][i][j] = m

----------------------------------------------------------------------------
(* C5: an accepted move sets isTie, and with it gameOver, exactly when the *)
(* mover has no line on the winner grid and the winner grid has no empty   *)
(* cell; a small board that is full without a winner is an empty cell of   *)
(* the winner grid, so no tie is declared while there is one.              *)

C5_TieIffWinnerGridFull ==
    [][reply'.msg = "move-made" =>
          \A r \in Rooms : Played(r) =>
              \A wg \in {WinnerGrid(games'[r].board)} : \A m \in {X, O} : Wrote(r, m) =>
                  /\ games'[r].isTie <=> (~ThreeInARow(wg, m) /\ ~HasEmptyCell(wg))
                  /\ games'[r].isTie => games'[r].gameOver
                  /\ (\E b \in BoardIdx : FullUndecided(games'[r].board[b])) => ~games'[r].isTie
      ]_vars

\* the move just accepted won the ninth small board without a line
C5_Witness ==
    /\ reply = Emit("make-move", "move-made")
    /\ \E r \in Rooms :
          /\ games[r].isTie
          /\ ~HasEmptyCell(WinnerGrid(games[r].board))

----------------------------------------------------------------------------
(* C6: in every reachable state of every game, winner set and isTie never  *)
(* hold together, each of them implies gameOver, and gameOver implies one  *)
(* of them.                                                                *)

C6_OutcomeFlags ==
    \A r \in Rooms :
        /\ ~(games[r].winner # Null /\ games[r].isTie)
        /\ games[r].winner # Null => games[r].gameOver
        /\ games[r].isTie => games[r].gameOver
        /\ games[r].gameOver => (games[r].winner # Null \/ games[r].isTie)

\* a game that was over has been restarted
C6_Witness ==
    /\ reply = Emit("restart-game", "game-restarted")
    /\ \E r \in Rooms : ~games[r].gameOver /\ games[r].winner = Null /\ ~games[r].isTie

----------------------------------------------------------------------------
(* C7, as stated: once a game is over, every make-move in its room is      *)
(* refused and changes nothing, and gameOver, winner and isTie keep their  *)
(* values until a restart-game for that room or the removal of the room.   *)

OverStays(r) ==
    /\ r \in DOMAIN games'
    /\ OutcomeFields(games'[r]) = OutcomeFields(games[r])
    /\ \A pos \in Positions : \A id \in Conns :
          MoveStep(id, r, pos) => (games' = games /\ reply'.msg \in MoveErrors)

C7_Original ==
    [][\A r \in Rooms : games[r].gameOver =>
          \/ \E id \in Conns : RestartGame(id, r)
          \/ r \notin DOMAIN games'
          \/ OverStays(r)
      ]_vars

(* C7, amended: ... until a restart-game for that room, the removal of the *)
(* room, or a create-room that draws the room's code and so replaces the   *)
(* game by a fresh one.                                                    *)

C7_GameOverIsFinal ==
    [][\A r \in Rooms : games[r].gameOver =>
          \/ \E id \in Conns : RestartGame(id, r)
          \/ r \notin DOMAIN games'
          \/ \E id \in Conns : CreateRoom(id, r)
          \/ OverStays(r)
      ]_vars

\* a move into an empty cell of an open small board was just refused
\* because the game is over
C7_Witness ==
    /\ reply = Emit("make-move", "Invalid move!")
    /\ \E r \in Rooms :
          /\ games[r].gameOver
          /\ games[r].currentBoard = NoBoard
          /\ \E b \in BoardIdx :
                Undecided(games[r].board[b]) /\ HasEmptyCell(games[r].board[b])

----------------------------------------------------------------------------
(* C8: restart-game on a room whose game is over leaves a game equal to a  *)
(* freshly created one: 81 empty cells, X to move, active board unset,     *)
(* gameOver false, winner unset, isTie false; the seats are unchanged.     *)

FreshGame(players) ==
    [ players       |-> players,
      board         |-> [b \in 0 .. 8 |-> [i \in 0 .. 2 |-> [j \in 0 .. 2 |-> ""]]],
      currentPlayer |-> "X",
      currentBoard  |-> NoBoard,
      gameOver      |-> FALSE,
      winner        |-> Null,
      isTie         |-> FALSE ]

C8_RestartGivesFreshGame ==
    [][reply'.on = "restart-game" =>
          \A r \in Rooms : \A id \in Conns :
              (games[r].gameOver /\ RestartGame(id, r)) =>
                  /\ games' = [games EXCEPT ![r] = FreshGame(games[r].players)]
                  /\ games'[r] = [NewGame EXCEPT !.players = games[r].players]
      ]_vars

\* a restart was just carried out in a room with two seats
C8_Witness ==
    /\ reply = Emit("restart-game", "game-restarted")
    /\ \E r \in Rooms : Len(games[r].players) = 2 /\ Marks(games[r].board) = 0

----------------------------------------------------------------------------
(* C9: restart-game on a room whose game is not over, or on a code that    *)
(* names no room, changes nothing in the registry.                         *)

C9_RestartOnlyWhenOver ==
    [][reply'.on = "restart-game" =>
          \A r \in RoomCodes : \A id \in Conns :
              ((r \notin Rooms \/ ~games[r].gameOver) /\ RestartGame(id, r))
                  => games' = games
      ]_vars

\* a restart was just ignored for a game under way
C9_Witness ==
    /\ reply = Emit("restart-game", "none")
    /\ \E r \in Rooms : ~games[r].gameOver /\ Marks(games[r].board) > 0

----------------------------------------------------------------------------
(* C10: every room always has at most two seats, the first bound to X and  *)
(* the second, if any, to O; join-room on a room with two seats is         *)
(* answered 'Room is full!', join-room on an unknown code 'Room not        *)
(* found!', and neither changes the registry.                              *)

SeatsWellFormed ==
    \A r \in Rooms :
        /\ Len(games[r].players) <= 2
        /\ Len(games[r].players) >= 1 => games[r].players[1].sign = X
        /\ Len(games[r].players) = 2 => games[r].players[2].sign = O

JoinRejections ==
    reply'.on = "join-room" =>
        \A r \in RoomCodes : \A id \in Conns : JoinRoom(id, r) =>
            /\ r \notin Rooms => (reply'.msg = "Room not found!" /\ games' = games)
            /\ (r \in Rooms /\ Len(games[r].players) = 2)
                  => (reply'.msg = "Room is full!" /\ games' = games)

C10_SeatsAndJoinRejections == []SeatsWellFormed /\ [][JoinRejections]_vars

\* a third join was just refused
C10_Witness ==
    /\ reply = Emit("join-room", "Room is full!")
    /\ \E r \in Rooms : Len(games[r].players) = 2

----------------------------------------------------------------------------
(* C11, as stated: no make-move is accepted in a room that has fewer than  *)
(* two seats: such a step writes no cell and leaves the turn as it was.    *)
(* The handler has no test on the number of seats: the creator, seated as  *)
(* X, moves at once in the room it has just created.                       *)

C11_NoMoveBeforeTwoSeats ==
    [][reply'.on = "make-move" =>
          \A r \in Rooms : Len(games[r].players) < 2 =>
              /\ games'[r].board = games[r].board
              /\ games'[r].currentPlayer = games[r].currentPlayer
      ]_vars

----------------------------------------------------------------------------
(* C12, as stated: when a connection seated in a room disconnects, in any  *)
(* phase of the game, player-disconnected is emitted and the room leaves   *)
(* the registry in the same step; from then on the room code names no game *)
(* and every make-move or join-room for it is answered 'Room not found!'.  *)
(* A code is in torn from the disconnect until a create-room draws it; the *)
(* statement lets no step make a game under such a code, so under it a     *)
(* code never leaves torn.                                                 *)

\* the disconnect of a seated connection removes its rooms and says so
TearsDown ==
    reply'.on = "disconnect" =>
        \A id \in Conns : Disconnect(id) =>
            \A r \in Rooms : Seated(games[r], id) =>
                /\ r \notin DOMAIN games'
                /\ reply'.msg = "player-disconnected"

\* a join-room or make-move for the code is answered 'Room not found!'
RefusedAsUnknown(r) ==
    /\ reply'.on = "join-room" =>
          \A id \in Conns : JoinRoom(id, r) =>
              (reply'.msg = "Room not found!" /\ games' = games)
    /\ reply'.on = "make-move" =>
          \A id \in Conns : \A pos \in Positions : MoveStep(id, r, pos) =>
              (reply'.msg = "Room not found!" /\ games' = games)

C12_Original ==
    [][ /\ TearsDown
        /\ \A r \in torn : r \notin DOMAIN games' /\ RefusedAsUnknown(r)
      ]_vars

(* C12, amended: ... until a create-room draws the same code, which makes  *)
(* a new room under it.                                                    *)

C12_DisconnectRemovesRoom ==
    /\ [](\A r \in torn : r \notin Rooms)
    /\ [][ /\ TearsDown
           /\ \A r \in torn :
                 /\ r \notin DOMAIN games' \/ \E id \in Conns : CreateRoom(id, r)
                 /\ RefusedAsUnknown(r)
         ]_vars

\* a move was just refused for the code of a room that a disconnect removed
C12_Witness ==
    /\ reply = Emit("make-move", "Room not found!")
    /\ torn # {}
    /\ \A r \in torn : r \notin Rooms

----------------------------------------------------------------------------
(* C13: a game can stall. The state is reachable (C13_Witness: two seats,  *)
(* legal moves only) in which the game is not over, every small board is   *)
(* won or full and one of them is full without a winner; in every such     *)
(* state isTie is false, no winner is set, no position is a legal move for *)
(* either seat, and so no make-move changes the game: play never ends it.  *)

Stalled(game) ==
    /\ ~game.gameOver
    /\ \A b \in BoardIdx : ~Undecided(game.board[b]) \/ ~HasEmptyCell(game.board[b])
    /\ \E b \in BoardIdx : FullUndecided(game.board[b])

C13_StallHasNoWayOut ==
    /\ [](\A r \in Rooms : Stalled(games[r]) =>
             /\ ~games[r].isTie
             /\ games[r].winner = Null
             /\ \A id \in Conns : \A pos \in Positions :
                    makeMove(games[r], id, pos).msg \in MoveErrors)
    /\ [][\A r \in Rooms : (Stalled(games[r]) /\ reply'.on = "make-move") =>
              (games' = games /\ reply'.msg \in MoveErrors)]_vars

\* X and O, seated on two connections, have played to a stall, and a move
\* into an empty cell of a won small board was just refused
C13_Witness ==
    /\ reply = Emit("make-move", "Invalid move!")
    /\ \E r \in Rooms :
          /\ Stalled(games[r])
          /\ Len(games[r].players) = 2
          /\ games[r].players[1].id # games[r].players[2].id
          /\ games[r].currentBoard = NoBoard
          /\ \E b \in BoardIdx : HasEmptyCell(games[r].board[b])

----------------------------------------------------------------------------
(* C14: in every reachable state no small board holds a three in a row of  *)
(* X together with a three in a row of O.                                  *)

C14_NoBoardWonTwice ==
    \A r \in Rooms : \A b \in BoardIdx :
        ~(ThreeInARow(games[r].board[b], X) /\ ThreeInARow(games[r].board[b], O))

\* the mark `them` has two cells of a line whose third cell is empty, in a
\* small board that the other mark has won
OneShortOfSecondLine(grid, them) ==
    /\ ThreeInARow(grid, Other(them))
    /\ \E l \in Lines : \E rc \in l :
          /\ grid[rc[1]][rc[2]] = Empty
          /\ \A o \in l \ {rc} : grid[o[1]][o[2]] = them

\* a move was just refused while the mover was free to choose the small
\* board and one cell short of a line in a small board won by the opponent
C14_Witness ==
    /\ reply = Emit("make-move", "Invalid move!")
    /\ \E r \in Rooms :
          /\ ~games[r].gameOver
          /\ games[r].currentBoard = NoBoard
          /\ \E b \in BoardIdx :
                OneShortOfSecondLine(games[r].board[b], games[r].currentPlayer)

----------------------------------------------------------------------------
(* C16: the answer to a make-move is decided by the first test that fails, *)
(* in this order: a code that names no room, 'Room not found!'; a sender   *)
(* with no seat in the room, 'Player not found!'; a sender whose mark is   *)
(* not the one to move, 'Not your turn!'; a move that is not legal (cell   *)
(* taken, another small board than the active one, small board won or      *)
(* full, game over), 'Invalid move!'; and each of them leaves the game as  *)
(* it was. The rooms are judged, for every connection and all 81           *)
(* positions, in the states that follow a change of the registry (every    *)
(* other step leaves it unchanged, C1).                                    *)

C16_Answer(game, id, pos) ==
    IF ~Seated(game, id) THEN "Player not found!"
    ELSE IF SeatMark(game, id) # game.currentPlayer THEN "Not your turn!"
    ELSE IF ~C1_Legal(game, id, pos) THEN "Invalid move!"
    ELSE "move-made"

C16_Judged ==
    \A r \in Rooms : \A id \in Conns : \A pos \in Positions :
        \A res \in {makeMove(games[r], id, pos)} :
            /\ res.msg = C16_Answer(games[r], id, pos)
            /\ res.msg # "move-made" => res.game = games[r]

\* the code of the make-move names no room exactly when the answer says so
C16_UnknownRoomFirst ==
    reply'.on = "make-move" =>
        /\ reply'.msg = "Room not found!" => (RoomCodes \ Rooms # {} /\ games' = games)
        /\ \A r \in RoomCodes \ Rooms : \A id \in Conns : \A pos \in Positions :
               MoveStep(id, r, pos) => reply'.msg = "Room not found!"

C16_RejectionOrder ==
    /\ [](reply.msg \in ChangeMsgs => C16_Judged)
    /\ [][C16_UnknownRoomFirst]_vars

\* the player to move was just refused while the active board is set, its
\* cells are not all taken and another small board is open as well
C16_Witness ==
    /\ reply = Emit("make-move", "Invalid move!")
    /\ \E r \in Rooms :
          /\ ~games[r].gameOver
          /\ games[r].currentBoard # NoBoard
          /\ \E b \in BoardIdx \ {games[r].currentBoard} :
                Undecided(games[r].board[b]) /\ HasEmptyCell(games[r].board[b])
          /\ Len(games[r].players) = 2

----------------------------------------------------------------------------
(* C17, as stated: until restart-game or the removal of the room, a cell   *)
(* that holds a mark keeps it, and a small board that has a three in a row *)
(* is written no more, so its cell of the winner grid keeps its mark.      *)

\* the step keeps every mark of the room and every small board that is won
Monotone(r) ==
    \/ games'[r].board = games[r].board
    \/ /\ \A b \in BoardIdx : \A i \in Idx : \A j \in Idx :
              games[r].board[b][i][j] # Empty =>
                  games'[r].board[b][i][j] = games[r].board[b][i][j]
       /\ \A b \in BoardIdx : ~Undecided(games[r].board[b]) =>
              games'[r].board[b] = games[r].board[b]
       /\ \A i \in Idx : \A j \in Idx :
              WinnerGrid(games[r].board)[i][j] # Empty =>
                  WinnerGrid(games'[r].board)[i][j] = WinnerGrid(games[r].board)[i][j]

C17_Original ==
    [][\A r \in Rooms :
          \/ r \notin DOMAIN games'
          \/ games[r].gameOver /\ \E id \in Conns : RestartGame(id, r)
          \/ Monotone(r)
      ]_vars

(* C17, amended: until restart-game, the removal of the room, or a         *)
(* create-room that draws the room's code and so replaces its board by an  *)
(* empty one.                                                              *)

C17_BoardMonotone ==
    [][\A r \in Rooms :
          \/ r \notin DOMAIN games'
          \/ games[r].gameOver /\ \E id \in Conns : RestartGame(id, r)
          \/ \E id \in Conns : CreateRoom(id, r)
          \/ Monotone(r)
      ]_vars

\* a move was just accepted in a game that has a won small board with an
\* empty cell, and the active board is unset
C17_Witness ==
    /\ reply = Emit("make-move", "move-made")
    /\ \E r \in Rooms :
          /\ ~games[r].gameOver
          /\ games[r].currentBoard = NoBoard
          /\ \E b \in BoardIdx :
                ~Undecided(games[r].board[b]) /\ HasEmptyCell(games[r].board[b])
          /\ Marks(games[r].board) > 20

----------------------------------------------------------------------------
(* C18: turns alternate, X first. While a game is not over, the board has  *)
(* as many X as O when X is to move and one X more than O when O is to     *)
(* move; when it is over, the mark to move is still the one that moved     *)
(* last: X with one X more than O on the board, O with as many.            *)

Count(board, m) ==
    Cardinality({p \in BoardIdx \X Idx \X Idx : board[p[1]][p[2]][p[3]] = m})

C18_TurnsAlternate ==
    \A r \in Rooms :
        LET nx == Count(games[r].board, X)
            no == Count(games[r].board, O)
        IN  /\ games[r].currentPlayer \in {X, O}
            /\ ~games[r].gameOver =>
                  nx = (IF games[r].currentPlayer = X THEN no ELSE no + 1)
            /\ games[r].gameOver =>
                  nx = (IF games[r].currentPlayer = X THEN no + 1 ELSE no)

\* O has just ended a game with its move and is still the mark to move
C18_Witness ==
    /\ reply = Emit("make-move", "move-made")
    /\ \E r \in Rooms :
          /\ games[r].gameOver
          /\ games[r].currentPlayer = O
          /\ Count(games[r].board, X) = Count(games[r].board, O)
          /\ Count(games[r].board, O) > 0

----------------------------------------------------------------------------
(* C19: in every reachable state whose game is not over and whose active   *)
(* board is set to k, small board k has no three in a row and has an empty *)
(* cell, so the connection seated with the mark to move has a move that is *)
(* accepted; a game without a legal move has its active board unset.       *)

C19_ActiveBoardPlayable ==
    \A r \in Rooms :
        (~games[r].gameOver /\ games[r].currentBoard # NoBoard) =>
            LET k == games[r].currentBoard
            IN  /\ k \in BoardIdx
                /\ Undecided(games[r].board[k])
                /\ HasEmptyCell(games[r].board[k])
                /\ ~Stalled(games[r])
                /\ \E i \in Idx, j \in Idx :
                       isValidMove(k, i, j, games[r].gameOver, games[r].board,
                                   games[r].currentBoard, games[r].currentPlayer,
                                   games[r].currentPlayer)
                /\ \A n \in 1 .. Len(games[r].players) :
                       FindSign(games[r].players, games[r].players[n].id)
                             = games[r].currentPlayer =>
                           \E i \in Idx, j \in Idx :
                               makeMove(games[r], games[r].players[n].id,
                                        [smallBoard |-> k, row |-> i, cell |-> j]).msg
                                   = "move-made"

\* a move has just sent the opponent to a small board with a single empty
\* cell, while other small boards are won
C19_Witness ==
    /\ reply = Emit("make-move", "move-made")
    /\ \E r \in Rooms :
          /\ ~games[r].gameOver
          /\ games[r].currentBoard # NoBoard
          /\ Len(getEmptyCellIndexes(games[r].board[games[r].currentBoard])) = 1
          /\ \E b \in BoardIdx : ~Undecided(games[r].board[b])

----------------------------------------------------------------------------
(* C20, as stated: the two seats of a room are bound to two different      *)
(* connections, so that in a room with two seats some connection resolves  *)
(* to the mark to move.                                                    *)
(* join-room does not compare the joining socket with the seat already     *)
(* taken: the creator joins its own room and holds both seats, and the     *)
(* lookup of make-move then resolves it to X only.                         *)

C20_SeatsOnDistinctConnections ==
    \A r \in Rooms : Len(games[r].players) = 2 =>
        /\ games[r].players[1].id # games[r].players[2].id
        /\ ~games[r].gameOver =>
              \E id \in Conns : FindSign(games[r].players, id) = games[r].currentPlayer

----------------------------------------------------------------------------
(* C15: rooms are independent. A make-move, join-room or restart-game for  *)
(* room r, accepted or refused, leaves every other room in the registry    *)
(* with the game it had: board, turn, active board, outcome and seats.     *)

OthersUntouched(r) ==
    \A o \in TwoCodes \ {r} :
        /\ o \in DOMAIN games' <=> o \in DOMAIN games
        /\ o \in DOMAIN games =>
              /\ games'[o].board = games[o].board
              /\ games'[o].currentPlayer = games[o].currentPlayer
              /\ games'[o].currentBoard = games[o].currentBoard
              /\ OutcomeFields(games'[o]) = OutcomeFields(games[o])
              /\ games'[o].players = games[o].players

C15_RoomsIndependent ==
    [][ /\ reply'.on = "make-move" =>
              \A r \in TwoCodes :
                  \/ OthersUntouched(r)
                  \/ \A id \in Conns : \A pos \in Positions : ~MoveStep(id, r, pos)
        /\ reply'.on = "join-room" =>
              \A r \in TwoCodes :
                  \/ OthersUntouched(r)
                  \/ \A id \in Conns : ~JoinRoom(id, r)
        /\ reply'.on = "restart-game" =>
              \A r \in TwoCodes :
                  \/ OthersUntouched(r)
                  \/ \A id \in Conns : ~RestartGame(id, r)
      ]_vars

\* one room's finished game was just restarted while the other room's game
\* is under way with two seats
C15_Witness ==
    /\ reply = Emit("restart-game", "game-restarted")
    /\ Rooms = TwoCodes
    /\ \E r \in Rooms : \E o \in Rooms \ {r} :
          /\ Marks(games[r].board) = 0
          /\ Marks(games[o].board) > 0
          /\ ~games[o].gameOver
          /\ Len(games[o].players) = 2

====
